---- MODULE Spec2Model ----
(***************************************************************************)
(* Where expressions (examples/whereexp.py): where() parses a string into  *)
(* an expression tree, formatWhere() renders a tree back to text.          *)
(*                                                                         *)
(* Text is a sequence of one-character strings.  A tree node is a record   *)
(* [op, name, val, kids]; a Python constant is a record [t, s, n, items].  *)
(* The pyparsing engine is modelled by its contract: ordered choice,       *)
(* whitespace skipped before every terminal, a parse action's return value *)
(* replacing the matched tokens, a ParseFatalException ending the parse    *)
(* through every combinator, any other exception of a parse action ending  *)
(* the call.  operatorPrecedence's look-ahead guards repeat the sequence   *)
(* they guard, so under that contract they do not change any result and    *)
(* are not modelled.                                                       *)
(***************************************************************************)
EXTENDS Integers, Sequences, FiniteSets, TLC

VARIABLES
    tree,    \* the tree handed to formatWhere
    input,   \* the words of the text handed to where, when it was written by hand
    text,    \* the text: formatWhere(tree), or the words joined
    result,  \* where(text)
    text2,   \* formatWhere(result)
    neTag,   \* the tag qz.data.where gives the node of operator.ne: '!=' or '<>'
    pc

vars == <<tree, input, text, result, text2, neTag, pc>>

(***************************************************************************)
(* Characters                                                              *)
(***************************************************************************)
LowerSeq == <<"a","b","c","d","e","f","g","h","i","j","k","l","m",
              "n","o","p","q","r","s","t","u","v","w","x","y","z">>

UpperSeq == <<"A","B","C","D","E","F","G","H","I","J","K","L","M",
              "N","O","P","Q","R","S","T","U","V","W","X","Y","Z">>

DigitSeq == <<"0","1","2","3","4","5","6","7","8","9">>

Range(f) == {f[i] : i \in DOMAIN f}

alphas == Range(LowerSeq) \cup Range(UpperSeq)

nums == Range(DigitSeq)

alphanums == alphas \cup nums

\* pyparsing's default whitespace characters
Whitespace == {" ", "\t", "\n", "\r"}

\* pyparsing's default keyword characters: alphanums + "_$"
IdentChars == alphanums \cup {"_", "$"}

UpperMap == [c \in Range(LowerSeq) |->
               UpperSeq[CHOOSE i \in DOMAIN LowerSeq : LowerSeq[i] = c]]

\* str.upper() of one character
Upper(c) == IF c \in DOMAIN UpperMap THEN UpperMap[c] ELSE c

RECURSIVE UpperStr(_)
UpperStr(s) == IF s = <<>> THEN <<>> ELSE <<Upper(Head(s))>> \o UpperStr(Tail(s))

DigitVal(c) == (CHOOSE i \in DOMAIN DigitSeq : DigitSeq[i] = c) - 1

\* s[i:j] of Python, 0-based, half-open, for 0 <= i
Slice(s, i, j) == IF j <= i THEN <<>> ELSE SubSeq(s, i + 1, IF j > Len(s) THEN Len(s) ELSE j)

\* s.startswith(p) at offset loc (0-based)
StartsAt(s, loc, p) == /\ loc + Len(p) <= Len(s)
                       /\ \A i \in 1..Len(p) : s[loc + i] = p[i]

\* sub in s, for strings
IsSubstring(sub, s) == \E loc \in 0..Len(s) : StartsAt(s, loc, sub)

\* s.count(c)
Count(s, c) == Cardinality({i \in DOMAIN s : s[i] = c})

RECURSIVE Join(_, _)
\* sep.join(parts)
Join(parts, sep) ==
    IF parts = <<>> THEN <<>>
    ELSE IF Len(parts) = 1 THEN parts[1]
    ELSE parts[1] \o sep \o Join(Tail(parts), sep)

RECURSIVE splitlines(_)
\* str.splitlines(): the lines without their line breaks; no last empty line
splitlines(s) ==
    IF s = <<>> THEN <<>>
    ELSE IF \E i \in DOMAIN s : s[i] = "\n"
         THEN LET i == CHOOSE k \in DOMAIN s : s[k] = "\n" /\ \A m \in 1..(k-1) : s[m] # "\n"
              IN  <<SubSeq(s, 1, i - 1)>> \o splitlines(SubSeq(s, i + 1, Len(s)))
         ELSE <<s>>

(***************************************************************************)
(* Python constants and the nodes of qz.data.where                         *)
(***************************************************************************)
PyStr(s) == [t |-> "str", s |-> s, n |-> 0, items |-> <<>>]

PyInt(n) == [t |-> "int", s |-> <<>>, n |-> n, items |-> <<>>]

\* a float keeps the digits it was written with
PyFloat(s) == [t |-> "float", s |-> s, n |-> 0, items |-> <<>>]

PyList(items) == [t |-> "list", s |-> <<>>, n |-> 0, items |-> items]

PyNone == [t |-> "none", s |-> <<>>, n |-> 0, items |-> <<>>]

\* Where(name): a column reference
Column(name) == [op |-> "Column", name |-> name, val |-> PyNone, kids |-> <<>>]

Const(v) == [op |-> "Const", name |-> <<>>, val |-> v, kids |-> <<>>]

\* a << op >> b, and the nodes the overloaded operators build
Composite(op, l, r) == [op |-> op, name |-> <<>>, val |-> PyNone, kids |-> <<l, r>>]

\* ~a
Invert(a) == [op |-> "not", name |-> <<>>, val |-> PyNone, kids |-> <<a>>]

\* an object that is neither a column, a constant nor an operation
Opaque == [op |-> "", name |-> <<>>, val |-> PyNone, kids |-> <<>>]

left(w) == w.kids[1]

right(w) == w.kids[2]

\* The text of an operator tag, for the tags the model uses
OpText == [c \in {"==", "!=", "<>", "<", ">", "<=", ">=", "=", "!", "= <", "xor",
                  "like", "startsWith", "endsWith", "isNull", "isNotNull",
                  "inlist", "notinlist", "not", "and", "or"} |->
    CASE c = "==" -> <<"=", "=">>
      [] c = "!=" -> <<"!", "=">>
      [] c = "<>" -> <<"<", ">">>
      [] c = "<"  -> <<"<">>
      [] c = ">"  -> <<">">>
      [] c = "<=" -> <<"<", "=">>
      [] c = ">=" -> <<">", "=">>
      [] c = "="  -> <<"=">>
      [] c = "!"  -> <<"!">>
      [] c = "= <" -> <<"=", " ", "<">>
      [] c = "xor" -> <<"x", "o", "r">>
      [] c = "like" -> <<"l", "i", "k", "e">>
      [] c = "startsWith" -> <<"s","t","a","r","t","s","W","i","t","h">>
      [] c = "endsWith" -> <<"e","n","d","s","W","i","t","h">>
      [] c = "isNull" -> <<"i","s","N","u","l","l">>
      [] c = "isNotNull" -> <<"i","s","N","o","t","N","u","l","l">>
      [] c = "inlist" -> <<"i","n","l","i","s","t">>
      [] c = "notinlist" -> <<"n","o","t","i","n","l","i","s","t">>
      [] c = "not" -> <<"n","o","t">>
      [] c = "and" -> <<"a","n","d">>
      [] c = "or" -> <<"o","r">>]

(***************************************************************************)
(* repr() of a constant                                                    *)
(***************************************************************************)
RECURSIVE NatDigits(_)
NatDigits(n) == IF n < 10 THEN <<DigitSeq[n + 1]>>
                ELSE NatDigits(n \div 10) \o <<DigitSeq[(n % 10) + 1]>>

reprInt(n) == IF n < 0 THEN <<"-">> \o NatDigits(-n) ELSE NatDigits(n)

RECURSIVE reprEscape(_, _)
reprEscape(s, q) ==
    IF s = <<>> THEN <<>>
    ELSE LET c == Head(s)
             e == IF c = "\\" THEN <<"\\", "\\">>
                  ELSE IF c = q THEN <<"\\", c>>
                  ELSE IF c = "\n" THEN <<"\\", "n">>
                  ELSE IF c = "\t" THEN <<"\\", "t">>
                  ELSE IF c = "\r" THEN <<"\\", "r">>
                  ELSE <<c>>
         IN  e \o reprEscape(Tail(s), q)

\* repr of a str: single quotes, unless it holds a ' and no "
reprStr(s) ==
    LET q == IF "'" \in Range(s) /\ ~("\"" \in Range(s)) THEN "\"" ELSE "'"
    IN  <<q>> \o reprEscape(s, q) \o <<q>>

RECURSIVE repr(_)
repr(v) ==
    CASE v.t = "str" -> reprStr(v.s)
      [] v.t = "int" -> reprInt(v.n)
      [] v.t = "float" -> v.s
      [] v.t = "none" -> <<"N","o","n","e">>
      [] v.t = "list" ->
           <<"[">> \o Join([i \in DOMAIN v.items |-> repr(v.items[i])], <<",", " ">>) \o <<"]">>

(***************************************************************************)
(* The formatter                                                           *)
(***************************************************************************)
LOGICAL == {"and", "or"}

CmpOpsText == <<"!","="," ","=","="," ","<",">"," ",">","="," ","<","=">>

Text(s) == [ok |-> TRUE, s |-> s, err |-> ""]

Raise(e) == [ok |-> FALSE, s |-> <<>>, err |-> e]

indent == <<" ", " ", " ", " ">>

\* w.op in '!= == <> >= <='
IsComparisonOp(op) == op \in DOMAIN OpText /\ IsSubstring(OpText[op], CmpOpsText)

\* the break before the operator instead of after it
JoinLogicalBreakBefore(l, opname, r, breakAfterLogicOp) ==
    IF breakAfterLogicOp THEN l \o <<"\n">> \o opname \o <<" ">> \o r
    ELSE Join(<<l, opname, r>>, <<" ">>)

\* exp = '%s %s\n%s' % toks  or  ' '.join(toks)
JoinLogical(l, opname, r, breakAfterLogicOp) ==
    IF breakAfterLogicOp THEN l \o <<" ">> \o opname \o <<"\n">> \o r
    ELSE Join(<<l, opname, r>>, <<" ">>)

\* '(\n%s\n)' % '\n'.join(indent + l for l in exp.splitlines())
Bracketed(exp) ==
    LET ls == splitlines(exp)
    IN  <<"(", "\n">> \o Join([i \in DOMAIN ls |-> indent \o ls[i]], <<"\n">>) \o <<"\n", ")">>

\* a left operand that is not a chained logic op is formatted unbroken, in
\* brackets if it is an and / or
ChainedAnyLogical(w) == left(w).op \in LOGICAL

\* if w.left.op == w.op: a left hand side of chained logic ops
Chained(w) == left(w).op = w.op

RECURSIVE _format(_, _, _)
_format(w, bracket, breakAfterLogicOp) ==
    IF w.op = "Column" THEN
        IF " " \in Range(w.name) THEN Text(<<"[">> \o w.name \o <<"]">>) ELSE Text(w.name)
    ELSE IF w.op = "Const" THEN Text(repr(w.val))
    ELSE IF w.op = "" THEN Raise("Unsupported object")
    ELSE IF IsComparisonOp(w.op) THEN
        LET l == _format(left(w), FALSE, FALSE)
            r == _format(right(w), FALSE, FALSE)
        IN  IF ~l.ok THEN l ELSE IF ~r.ok THEN r
            ELSE Text(l.s \o <<" ">> \o OpText[w.op] \o <<" ">> \o r.s)
    ELSE IF w.op \in {"isNull", "isNotNull"} THEN
        LET l == _format(left(w), FALSE, FALSE)
        IN  IF ~l.ok THEN l
            ELSE Text(l.s \o (IF w.op = "isNull" THEN <<" ","I","S"," ","N","U","L","L">>
                              ELSE <<" ","I","S"," ","N","O","T"," ","N","U","L","L">>))
    ELSE IF w.op \in {"like", "startsWith", "endsWith"} THEN
        LET l == _format(left(w), FALSE, FALSE)
            p == right(w).val.s
            pat == CASE w.op = "like" -> <<"%">> \o p \o <<"%">>
                     [] w.op = "startsWith" -> p \o <<"%">>
                     [] w.op = "endsWith" -> <<"%">> \o p
        IN  IF ~l.ok THEN l
            ELSE Text(l.s \o <<" ","L","I","K","E"," ">> \o reprStr(pat))
    ELSE IF w.op \in {"inlist", "notinlist"} THEN
        LET l == _format(left(w), FALSE, FALSE)
        IN  IF ~l.ok THEN l
            ELSE Text(l.s \o (IF w.op = "inlist" THEN <<" ","I","N"," ">>
                              ELSE <<" ","N","O","T"," ","I","N"," ">>) \o repr(right(w).val))
    ELSE IF w.op = "not" THEN
        LET l == _format(left(w), TRUE, TRUE)
        IN  IF ~l.ok THEN l ELSE Text(<<"N","O","T"," ">> \o l.s)
    ELSE IF w.op \in LOGICAL THEN
        LET chained == Chained(w)
            l == IF chained THEN _format(left(w), FALSE, TRUE) ELSE _format(left(w), TRUE, FALSE)
            r == _format(right(w), TRUE, FALSE)
            exp == JoinLogical(l.s, UpperStr(OpText[w.op]), r.s, chained \/ breakAfterLogicOp)
        IN  IF ~l.ok THEN l ELSE IF ~r.ok THEN r
            ELSE IF bracket THEN Text(Bracketed(exp)) ELSE Text(exp)
    ELSE Raise("Unknown operation")

formatWhere(w) == _format(w, FALSE, FALSE)

(***************************************************************************)
(* The terminals of the grammar.  A parser takes the text and an offset    *)
(* (the number of characters consumed) and returns [st, loc, v]:           *)
(*   st = "ok"     matched up to loc, with value v                         *)
(*   st = "fail"   ParseException at loc                                   *)
(*   st = "fatal"  ParseFatalException at loc, v its message               *)
(*   st = "valerr" ValueError of a parse action, v its message             *)
(***************************************************************************)
Ok(loc, v) == [st |-> "ok", loc |-> loc, v |-> v]

Fail(loc) == [st |-> "fail", loc |-> loc, v |-> "Expected"]

Fatal(loc, msg) == [st |-> "fatal", loc |-> loc, v |-> msg]

ValErr(loc, msg) == [st |-> "valerr", loc |-> loc, v |-> msg]

\* MatchFirst: the first alternative that does not end in a ParseException
Alt(a, b) == IF a.st # "fail" THEN a ELSE b

\* And: the next element is matched where the last one ended
Then(a, Rest(_)) == IF a.st = "ok" THEN Rest(a) ELSE a

\* Optional / the end of a repetition: a ParseException matches nothing
OrSkip(a, loc, v) == IF a.st = "fail" THEN Ok(loc, v) ELSE a

\* a parse action on the tokens of a match
Action(a, F(_)) == IF a.st = "ok" THEN Ok(a.loc, F(a.v)) ELSE a

RECURSIVE preParse(_, _)
\* skip the whitespace before a terminal
preParse(s, loc) ==
    IF loc < Len(s) /\ s[loc + 1] \in Whitespace THEN preParse(s, loc + 1) ELSE loc

LiteralAt(s, p, lit) == IF StartsAt(s, p, lit) THEN Ok(p + Len(lit), lit) ELSE Fail(p)

Literal(s, loc, lit) == LiteralAt(s, preParse(s, loc), lit)

KeywordAt(s, p, e, kw) ==
    IF /\ e <= Len(s)
       /\ UpperStr(SubSeq(s, p + 1, e)) = UpperStr(kw)
       /\ (e = Len(s) \/ Upper(s[e + 1]) \notin IdentChars)
       /\ (p = 0 \/ Upper(s[p]) \notin IdentChars)
    THEN Ok(e, kw) ELSE Fail(p)

\* CaselessKeyword(kw): kw in any case, not inside a longer word
CaselessKeyword(s, loc, kw) == KeywordAt(s, preParse(s, loc), preParse(s, loc) + Len(kw), kw)

RECURSIVE RunEnd(_, _, _)
\* the end of the longest run of characters of cs starting at loc
RunEnd(s, loc, cs) ==
    IF loc < Len(s) /\ s[loc + 1] \in cs THEN RunEnd(s, loc + 1, cs) ELSE loc

WordAt(s, p) ==
    IF p < Len(s) /\ s[p + 1] \in alphas
    THEN Ok(RunEnd(s, p + 1, alphanums), Slice(s, p, RunEnd(s, p + 1, alphanums)))
    ELSE Fail(p)

\* Word(alphas, alphanums)
Word(s, loc) == WordAt(s, preParse(s, loc))

RECURSIVE QuotedEnd(_, _, _, _)
\* the offset of the closing quote of a quoted string whose body starts at
\* loc, or -1: the body holds no line break, and no bare quote or escape
\* character; an escape character takes the next character with it
QuotedEnd(s, loc, endq, esc) ==
    IF loc >= Len(s) THEN -1
    ELSE IF s[loc + 1] = endq THEN loc
    ELSE IF s[loc + 1] \in {"\n", "\r"} THEN -1
    ELSE IF esc # "" /\ s[loc + 1] = esc
         THEN IF loc + 1 < Len(s) /\ s[loc + 2] # "\n"
              THEN QuotedEnd(s, loc + 2, endq, esc) ELSE -1
    ELSE QuotedEnd(s, loc + 1, endq, esc)

\* the quoted string from p to the closing quote at e, with or without its quotes
QuotedFrom(s, p, e, unquote) ==
    IF e < 0 THEN Fail(p)
    ELSE Ok(e + 1, IF unquote THEN Slice(s, p + 1, e) ELSE Slice(s, p, e + 1))

QuotedAt(s, p, q, endq, esc, unquote) ==
    IF p < Len(s) /\ s[p + 1] = q
    THEN QuotedFrom(s, p, QuotedEnd(s, p + 1, endq, esc), unquote)
    ELSE Fail(p)

\* QuotedString(q, escChar='\\', unquoteResults=False): the text with its quotes
QuotedString(s, loc, q) == QuotedAt(s, preParse(s, loc), q, q, "\\", FALSE)

\* QuotedString('[', endQuoteChar=']'): the text between the brackets
BracketString(s, loc) == QuotedAt(s, preParse(s, loc), "[", "]", "", TRUE)

STRING_CONSTANT(s, loc) == Alt(QuotedString(s, loc, "'"), QuotedString(s, loc, "\""))

\* the sign, if any, is at p; the digits run from d to e
IntFrom(s, p, d, e) ==
    IF (IF e < Len(s) /\ s[e + 1] = "." THEN e - 1 ELSE e) > d
    THEN Ok(IF e < Len(s) /\ s[e + 1] = "." THEN e - 1 ELSE e,
            Slice(s, p, IF e < Len(s) /\ s[e + 1] = "." THEN e - 1 ELSE e))
    ELSE Fail(p)

SignEnd(s, p) == IF p < Len(s) /\ s[p + 1] = "-" THEN p + 1 ELSE p

IntAt(s, p) == IntFrom(s, p, SignEnd(s, p), RunEnd(s, SignEnd(s, p), nums))

\* Regex(r'-?\d+(?!\.)'): the digits give one back when a '.' follows
INT_CONSTANT(s, loc) == IntAt(s, preParse(s, loc))

\* the digits before the point end at e, those after it at f
FloatFrom(s, p, e, f) == IF f > e + 1 THEN Ok(f, Slice(s, p, f)) ELSE Fail(p)

FloatPoint(s, p, e) ==
    FloatFrom(s, p, e, IF e < Len(s) /\ s[e + 1] = "." THEN RunEnd(s, e + 1, nums) ELSE e)

\* Regex(r'-?\d*\.\d+')
FLOAT_CONSTANT(s, loc) ==
    FloatPoint(s, preParse(s, loc), RunEnd(s, SignEnd(s, preParse(s, loc)), nums))

RECURSIVE DigitsVal(_, _)
DigitsVal(ds, acc) ==
    IF ds = <<>> THEN acc ELSE DigitsVal(Tail(ds), 10 * acc + DigitVal(Head(ds)))

\* the character(s) an escape sequence \c stands for
Escaped(c) ==
    IF c \in {"\\", "'", "\""} THEN <<c>>
    ELSE IF c = "n" THEN <<"\n">>
    ELSE IF c = "t" THEN <<"\t">>
    ELSE IF c = "r" THEN <<"\r">>
    ELSE <<"\\", c>>

RECURSIVE unescape(_)
\* the escape sequences of a Python string literal
unescape(s) ==
    IF s = <<>> THEN <<>>
    ELSE IF Head(s) = "\\" /\ Len(s) >= 2
         THEN Escaped(s[2]) \o unescape(SubSeq(s, 3, Len(s)))
         ELSE <<Head(s)>> \o unescape(Tail(s))

\* ast.literal_eval of the text of a constant
literal_eval(raw) ==
    IF raw[1] \in {"'", "\""} THEN PyStr(unescape(SubSeq(raw, 2, Len(raw) - 1)))
    ELSE IF "." \in Range(raw) THEN PyFloat(raw)
    ELSE IF raw[1] = "-" THEN PyInt(0 - DigitsVal(Tail(raw), 0))
    ELSE PyInt(DigitsVal(raw, 0))

\* the constant rule: STRING_CONSTANT | FLOAT_CONSTANT | INT_CONSTANT, evaluated
CONSTANT_(s, loc) ==
    Action(Alt(STRING_CONSTANT(s, loc), Alt(FLOAT_CONSTANT(s, loc), INT_CONSTANT(s, loc))),
           literal_eval)

COMMA(s, loc) == Literal(s, loc, <<",">>)

\* a fail action that raises its own error over a fatal one of an inner rule
failOver(r, s, loc, name) ==
    IF r.st \in {"fail", "fatal"} THEN Fatal(preParse(s, loc), name) ELSE r

\* Set a fail action to fail immediately if no expression could be parsed
fail(r, s, loc, name) ==
    IF r.st = "fail" THEN Fatal(preParse(s, loc), name) ELSE r

RECURSIVE ListItems(_, _)
\* ZeroOrMore(COMMA + constant) after the items of m
ListItems(s, m) ==
    OrSkip(Then(Then(COMMA(s, m.loc), LAMBDA c : CONSTANT_(s, c.loc)),
                LAMBDA k : ListItems(s, Ok(k.loc, Append(m.v, k.v)))),
           m.loc, m.v)

\* Optional(COMMA) + Literal(']') after the items of m
ListEnd(s, m) ==
    Then(OrSkip(COMMA(s, m.loc), m.loc, <<>>),
         LAMBDA t : Action(Literal(s, t.loc, <<"]">>), LAMBDA x : PyList(m.v)))

\* LIST = '[' constant (',' constant)* [','] ']', with parseList and fail(LIST, 'list')
LIST(s, loc) ==
    fail(Then(Then(Then(Literal(s, loc, <<"[">>),
                        LAMBDA o : Action(CONSTANT_(s, o.loc), LAMBDA v : <<v>>)),
                   LAMBDA c : ListItems(s, c)),
              LAMBDA m : ListEnd(s, m)),
         s, loc, "Expected list")

\* IDENTIFIER, with its parse action Where(toks[0])
IDENTIFIER(s, loc) == Action(Alt(Word(s, loc), BracketString(s, loc)), Column)

\* VALUE = constant | IDENTIFIER; a constant operand becomes a Const node
VALUE(s, loc) == Alt(Action(CONSTANT_(s, loc), Const), IDENTIFIER(s, loc))

RECURSIVE FirstLiteral(_, _, _)
\* MatchFirst of literals, in order
FirstLiteral(s, loc, lits) ==
    IF lits = <<>> THEN Fail(preParse(s, loc))
    ELSE Alt(Literal(s, loc, Head(lits)), FirstLiteral(s, loc, Tail(lits)))

OPERATOR(s, loc) ==
    Alt(FirstLiteral(s, loc, << <<"=", "=">>, <<"=">>, <<"!", "=">>, <<"<", ">">>,
                                <<">", "=">>, <<"<", "=">>, <<">">>, <<"<">> >>),
        CaselessKeyword(s, loc, <<"l", "i", "k", "e">>))

(***************************************************************************)
(* Tests and their parse actions                                           *)
(***************************************************************************)
IsStr(w) == w.op = "Const" /\ w.val.t = "str"

Built(w) == [ok |-> TRUE, w |-> w, err |-> ""]

Raised(e) == [ok |-> FALSE, w |-> Opaque, err |-> e]

\* the test of the end of the pattern before the test of its start
LikePatternEndFirst(a, b, p, ps, n) ==
    IF ps = 0 THEN Built(Composite("==", a, b))
    ELSE IF ps = 1 /\ p[n] = "%"
         THEN Built(Composite("startsWith", a, Const(PyStr(Slice(p, 0, n - 1)))))
    ELSE IF ps = 1 /\ p[1] = "%"
         THEN Built(Composite("endsWith", a, Const(PyStr(Slice(p, 1, n)))))
    ELSE IF ps = 2 /\ p[1] = "%" /\ p[n] = "%"
         THEN Built(Composite("like", a, Const(PyStr(Slice(p, 1, n - 1)))))
    ELSE Raised("Unsupported LIKE pattern")

\* the pattern p of length n, holding ps '%', compiled
LikePattern(a, b, p, ps, n) ==
    IF ps = 0 THEN Built(Composite("==", a, b))
    ELSE IF ps = 1 /\ p[1] = "%"
         THEN Built(Composite("endsWith", a, Const(PyStr(Slice(p, 1, n)))))
    ELSE IF ps = 1 /\ p[n] = "%"
         THEN Built(Composite("startsWith", a, Const(PyStr(Slice(p, 0, n - 1)))))
    ELSE IF ps = 2 /\ p[1] = "%" /\ p[n] = "%"
         THEN Built(Composite("like", a, Const(PyStr(Slice(p, 1, n - 1)))))
    ELSE Raised("Unsupported LIKE pattern")

\* make_like(a, b): the LIKE pattern b compiled to a node, or a ValueError
make_like(a, b) ==
    IF ~IsStr(b) THEN Raised("LIKE operator requires a string on the rhs.")
    ELSE LikePattern(a, b, b.val.s, Count(b.val.s, "%"), Len(b.val.s))

\* OPS[op](l, r): operator.eq .. operator.ge build the node of their tag;
\* operator.ne builds the node the data model tags neTag
OPS(op, l, r) ==
    CASE op \in {<<"=", "=">>, <<"=">>} -> Built(Composite("==", l, r))
      [] op \in {<<"!", "=">>, <<"<", ">">>} -> Built(Composite(neTag, l, r))
      [] op = <<"<">> -> Built(Composite("<", l, r))
      [] op = <<">">> -> Built(Composite(">", l, r))
      [] op = <<"<", "=">> -> Built(Composite("<=", l, r))
      [] op = <<">", "=">> -> Built(Composite(">=", l, r))
      [] op = <<"l", "i", "k", "e">> -> make_like(l, r)

\* parseTest(toks): the node, or the ValueError of make_like
parseTest(loc, end, t) == IF t.ok THEN Ok(end, t.w) ELSE ValErr(loc, t.err)

\* INFIX_TEST = IDENTIFIER + OPERATOR + VALUE, with parseTest
INFIX_TEST(s, loc) ==
    Then(IDENTIFIER(s, loc), LAMBDA l :
        Then(OPERATOR(s, l.loc), LAMBDA o :
            Then(VALUE(s, o.loc), LAMBDA r : parseTest(loc, r.loc, OPS(o.v, l.v, r.v)))))

IS(s, loc) == CaselessKeyword(s, loc, <<"i", "s">>)

NOT(s, loc) == CaselessKeyword(s, loc, <<"n", "o", "t">>)

NULL(s, loc) == CaselessKeyword(s, loc, <<"n", "u", "l", "l">>)

IN_(s, loc) == CaselessKeyword(s, loc, <<"i", "n">>)

\* NULL_TEST = IDENTIFIER + IS + NULL, with parseNullTest
NULL_TEST(s, loc) ==
    Then(IDENTIFIER(s, loc), LAMBDA l :
        Then(IS(s, l.loc), LAMBDA i :
            Action(NULL(s, i.loc), LAMBDA n : Composite("isNull", l.v, Const(PyNone)))))

\* NOT_NULL_TEST = IDENTIFIER + IS + NOT + NULL, with parseNotNullTest
NOT_NULL_TEST(s, loc) ==
    Then(IDENTIFIER(s, loc), LAMBDA l :
        Then(IS(s, l.loc), LAMBDA i :
            Then(NOT(s, i.loc), LAMBDA k :
                Action(NULL(s, k.loc), LAMBDA n : Composite("isNotNull", l.v, Const(PyNone))))))

\* INLIST_TEST = IDENTIFIER + IN + LIST, with parseInList
INLIST_TEST(s, loc) ==
    Then(IDENTIFIER(s, loc), LAMBDA l :
        Then(IN_(s, l.loc), LAMBDA i :
            Action(LIST(s, i.loc), LAMBDA n : Composite("inlist", l.v, Const(n)))))

\* NOT_INLIST_TEST = IDENTIFIER + NOT + IN + LIST, with parseNotInList
NOT_INLIST_TEST(s, loc) ==
    Then(IDENTIFIER(s, loc), LAMBDA l :
        Then(NOT(s, l.loc), LAMBDA k :
            Then(IN_(s, k.loc), LAMBDA i :
                Action(LIST(s, i.loc), LAMBDA n : Composite("notinlist", l.v, Const(n))))))

\* TEST = INFIX_TEST | NULL_TEST | NOT_NULL_TEST | INLIST_TEST | NOT_INLIST_TEST
TEST(s, loc) ==
    Alt(INFIX_TEST(s, loc),
        Alt(NULL_TEST(s, loc),
            Alt(NOT_NULL_TEST(s, loc),
                Alt(INLIST_TEST(s, loc), NOT_INLIST_TEST(s, loc)))))

(***************************************************************************)
(* Expressions                                                             *)
(***************************************************************************)
RECURSIVE infixRight(_)
\* the tokens folded from the right
infixRight(toks) ==
    IF Len(toks) = 1 THEN toks[1]
    ELSE Composite(toks[2], toks[1], infixRight(SubSeq(toks, 3, Len(toks))))

RECURSIVE infix(_)
\* infix(toks): toks = <<v, op, r, op, r, ...>> folded from the left
infix(toks) ==
    IF Len(toks) = 1 THEN toks[1]
    ELSE infix(<<Composite(toks[2], toks[1], toks[3])>> \o SubSeq(toks, 4, Len(toks)))

\* unary(operator.invert)
unary(v) == Invert(v)

\* CaselessKeyword('and') | CaselessKeyword('or'): the keyword as 'and' / 'or'
LogicOp(s, loc) ==
    Alt(Action(CaselessKeyword(s, loc, <<"a", "n", "d">>), LAMBDA k : "and"),
        Action(CaselessKeyword(s, loc, <<"o", "r">>), LAMBDA k : "or"))

RECURSIVE EXPRESSION(_, _), NotLevel(_, _), Operand(_, _), LogicTail(_, _)

\* TEST | '(' EXPRESSION ')'
Operand(s, loc) ==
    Alt(TEST(s, loc),
        Then(Literal(s, loc, <<"(">>), LAMBDA o :
            Then(EXPRESSION(s, o.loc), LAMBDA e :
                Action(Literal(s, e.loc, <<")">>), LAMBDA c : e.v))))

\* NOT over the whole expression that follows it
NotLevelWide(s, loc) ==
    Alt(Action(Then(NOT(s, loc), LAMBDA n : EXPRESSION(s, n.loc)), unary),
        Operand(s, loc))

\* (NOT, 1, opAssoc.RIGHT, unary(operator.invert)): NOT NotLevel | Operand
NotLevel(s, loc) ==
    Alt(Action(Then(NOT(s, loc), LAMBDA n : NotLevel(s, n.loc)), unary),
        Operand(s, loc))

\* OneOrMore(op + NotLevel) after the tokens of m
LogicTail(s, m) ==
    OrSkip(Then(LogicOp(s, m.loc), LAMBDA o :
               Then(NotLevel(s, o.loc), LAMBDA e :
                   LogicTail(s, Ok(e.loc, m.v \o <<o.v, e.v>>)))),
           m.loc, m.v)

\* EXPRESSION = operatorPrecedence(TEST, [NOT ..., and|or ...]) with
\* fail(EXPRESSION, 'expression'):
\* (and|or, 2, opAssoc.LEFT, infix): NotLevel (op NotLevel)+ | NotLevel
EXPRESSION(s, loc) ==
    fail(Action(Then(Action(NotLevel(s, loc), LAMBDA v : <<v>>),
                     LAMBDA f : LogicTail(s, f)),
                infix),
         s, loc, "Expected expression")

\* an end of text that matches anywhere
StringEndAnywhere(s, loc) == Ok(preParse(s, loc), <<>>)

StringEndAt(s, p) == IF p = Len(s) THEN Ok(p, <<>>) ELSE Fail(p)

StringEnd(s, loc) == StringEndAt(s, preParse(s, loc))

\* WHEREEXP = StringStart() + EXPRESSION + StringEnd()
WHEREEXP(s) ==
    Then(EXPRESSION(s, 0), LAMBDA e : Action(StringEnd(s, e.loc), LAMBDA z : e.v))

NoResult == [kind |-> "none", tree |-> Opaque, msg |-> "", loc |-> 0]

\* the tree of a match, or the exception that ended the parse
Outcome(r) ==
    CASE r.st = "ok"     -> [kind |-> "tree", tree |-> r.v, msg |-> "", loc |-> r.loc]
      [] r.st = "fail"   -> [kind |-> "ParseException", tree |-> Opaque,
                             msg |-> "Expected end of text", loc |-> r.loc]
      [] r.st = "fatal"  -> [kind |-> "ParseFatalException", tree |-> Opaque,
                             msg |-> r.v, loc |-> r.loc]
      [] r.st = "valerr" -> [kind |-> "ValueError", tree |-> Opaque,
                             msg |-> r.v, loc |-> r.loc]

\* where(expr) = WHEREEXP.parseString(expr)[0]
where(expr) == Outcome(WHEREEXP(expr))

(***************************************************************************)
(* The trees the formatter is applied to                                   *)
(***************************************************************************)
\* the longest LIKE operand
MaxPat == 3

\* the longest list literal
MaxList == 2

\* the number of distinct tests combined by not / and / or
NumAtoms == 2

\* sequences over S of length at most n
SeqsUpTo(S, n) == UNION {[1..k -> S] : k \in 0..n}

ColA == Column(<<"a">>)

ColBC == Column(<<"b", " ", "c">>)

Ten == Const(PyInt(10))

Values == {PyInt(10), PyInt(-3), PyStr(<<"x">>), PyStr(<<"x", "%">>),
           PyStr(<<"'">>), PyStr(<<"'", "\"", "\\">>)}

ComparisonTags == {"==", "!=", "<>", "<", ">", "<=", ">="}

\* tags outside the vocabulary
ForeignTags == {"=", "!", "= <", "xor"}

Vocabulary == ComparisonTags \cup {"like", "startsWith", "endsWith", "isNull", "isNotNull",
                                   "inlist", "notinlist", "not", "and", "or"}

Patterns == SeqsUpTo({"x", "%"}, MaxPat)

Lists == SeqsUpTo({PyInt(10), PyStr(<<"x">>)}, MaxList)

ComparisonTests == {Composite(op, ColA, Const(v)) : op \in ComparisonTags, v \in Values}
                       \cup {Composite("==", ColBC, ColBC)}

LikeTests == {Composite(op, ColA, Const(PyStr(p))) :
                 op \in {"like", "startsWith", "endsWith"}, p \in Patterns}

NullTests == {Composite(op, c, Const(PyNone)) : op \in {"isNull", "isNotNull"}, c \in {ColA, ColBC}}

ListTests == {Composite(op, ColA, Const(PyList(l))) : op \in {"inlist", "notinlist"}, l \in Lists}

ForeignNodes == {Composite(t, ColA, Ten) : t \in ForeignTags} \cup {Opaque}

Tests == ComparisonTests \cup LikeTests \cup NullTests \cup ListTests

AtomSeq == <<Composite("==", ColA, Ten),
             Composite("isNull", ColBC, Const(PyNone)),
             Composite("inlist", ColA, Const(PyList(<<PyInt(10), PyStr(<<"x">>)>>))),
             Composite("<", ColA, ColBC)>>

Atoms == {AtomSeq[i] : i \in 1..NumAtoms}

\* one more level of not / and / or over S
Combine(S) == S \cup {Invert(x) : x \in S}
                \cup {Composite(o, x, y) : o \in LOGICAL, x \in S, y \in S}

Trees == Tests \cup Combine(Combine(Atoms)) \cup Combine(Combine(Combine({AtomSeq[1]})))
             \cup Combine(ForeignNodes \cup {AtomSeq[1]})

(***************************************************************************)
(* The texts the parser is applied to: words joined by single spaces       *)
(***************************************************************************)
\* the most words of an input made of loose words
MaxWords == 4

\* the most operands of an and / or chain
MaxOperands == 3

\* the most NOTs before one operand
MaxNots == 1

TextOf(words) == Join(words, <<" ">>)

wA == <<"a">>

wLike == <<"l", "i", "k", "e">>

wLIKE == <<"L", "I", "K", "E">>

wNot == <<"n", "o", "t">>

wAnd == <<"a", "n", "d">>

wOr == <<"o", "r">>

wTest == <<"a", " ", "=", " ", "1">>

wInList == <<"a", " ", "i", "n", " ", "[">>

wOne == <<"1">>

wClose == <<"]">>

wLeft == <<"(">>

wRight == <<")">>

\* operands that are not strings: numbers and identifiers
NonStrings == {<<"5">>, <<"-", "3">>, <<"1", ".", "5">>, <<"b">>, <<"[", "b", " ", "c", "]">>}

\* a like <operand>
LikeInputs == {<<wA, k, o>> : k \in {wLike, wLIKE},
                              o \in {reprStr(p) : p \in Patterns} \cup NonStrings}

\* the operand at each place of a chain: a test, or a bracketed expression
OperandText == << <<wTest, <<"(", "a", "=", "1", " ", "O", "R", " ", "x", "<", "2", ")">> >>,
                  << <<"b", " ", "i", "s", " ", "n", "u", "l", "l">>,
                     <<"(", "b", ">", "1", " ", "a", "n", "d", " ", "n", "o", "t", " ", "y", "<", "2", ")">> >>,
                  << <<"c", " ", "I", "N", " ", "[", "1", ",", "2", "]">>,
                     <<"(", "n", "o", "t", " ", "c", "=", "1", ")">> >>,
                  << <<"d", " ", "<", " ", "e">>,
                     <<"(", "(", "d", "=", "1", ")", ")">> >>,
                  << <<"e", " ", ">", "=", " ", "'", "x", "'">>,
                     <<"(", "e", "=", "1", " ", "o", "r", " ", "z", "=", "2", ")">> >> >>

Col1(c) == Column(<<c>>)

IntC(n) == Const(PyInt(n))

\* the tree each operand stands for
OperandTree == << <<Composite("==", Col1("a"), IntC(1)),
                    Composite("or", Composite("==", Col1("a"), IntC(1)),
                                    Composite("<", Col1("x"), IntC(2)))>>,
                  <<Composite("isNull", Col1("b"), Const(PyNone)),
                    Composite("and", Composite(">", Col1("b"), IntC(1)),
                                     Invert(Composite("<", Col1("y"), IntC(2))))>>,
                  <<Composite("inlist", Col1("c"), Const(PyList(<<PyInt(1), PyInt(2)>>))),
                    Invert(Composite("==", Col1("c"), IntC(1)))>>,
                  <<Composite("<", Col1("d"), Col1("e")),
                    Composite("==", Col1("d"), IntC(1))>>,
                  <<Composite(">=", Col1("e"), Const(PyStr(<<"x">>))),
                    Composite("or", Composite("==", Col1("e"), IntC(1)),
                                    Composite("==", Col1("z"), IntC(2)))>> >>

\* a chain: for each operand its NOTs and its kind (1 a test, 2 bracketed),
\* and the operator before each operand but the first
Chains == UNION {[nots : [1..n -> 0..MaxNots], kind : [1..n -> 1..2],
                  ops : [1..(n - 1) -> {wAnd, wOr}]] : n \in 1..MaxOperands}

RECURSIVE Repeat(_, _)
Repeat(w, k) == IF k = 0 THEN <<>> ELSE <<w>> \o Repeat(w, k - 1)

RECURSIVE ChainWords(_, _)
\* the words of the chain c from operand i on
ChainWords(c, i) ==
    IF i > Len(c.nots) THEN <<>>
    ELSE (IF i = 1 THEN <<>> ELSE <<c.ops[i - 1]>>)
             \o Repeat(wNot, c.nots[i]) \o <<OperandText[i][c.kind[i]]>>
             \o ChainWords(c, i + 1)

ChainInputs == {ChainWords(c, 1) : c \in Chains}

Words == {wTest, wInList, wOne, wClose, wLeft, wRight, wAnd}

WordInputs == SeqsUpTo(Words, MaxWords)

Inputs == LikeInputs \cup ChainInputs \cup WordInputs

(***************************************************************************)
(* The operations                                                          *)
(***************************************************************************)
NoText == Raise("")

\* a tree built through the builder API, to be formatted
Init ==
    /\ tree \in Trees
    /\ neTag \in {"!=", "<>"}
    /\ input = <<>>
    /\ text = NoText
    /\ result = NoResult
    /\ text2 = NoText
    /\ pc = "built"

\* a text written by hand, to be parsed; the texts hold no inequality, so the
\* tag of operator.ne has no part in their trees
InitParse ==
    /\ input \in Inputs
    /\ neTag = "!="
    /\ tree = Opaque
    /\ text = Text(TextOf(input))
    /\ result = NoResult
    /\ text2 = NoText
    /\ pc = "formatted"

\* text = formatWhere(tree)
Format ==
    /\ pc = "built"
    /\ text' = formatWhere(tree)
    /\ pc' = "formatted"
    /\ UNCHANGED <<tree, input, result, text2, neTag>>

\* result = where(text)
Parse ==
    /\ pc = "formatted"
    /\ text.ok
    /\ result' = where(text.s)
    /\ pc' = "parsed"
    /\ UNCHANGED <<tree, input, text, text2, neTag>>

\* text2 = formatWhere(result)
Reformat ==
    /\ pc = "parsed"
    /\ result.kind = "tree"
    /\ text2' = formatWhere(result.tree)
    /\ pc' = "done"
    /\ UNCHANGED <<tree, input, text, result, neTag>>

Next == Format \/ Parse \/ Reformat

Spec == Init /\ [][Next]_vars

NextParse == Parse \/ Reformat

SpecParse == InitParse /\ [][NextParse]_vars

(***************************************************************************)
(* Properties of formatting: where(formatWhere(tree))                      *)
(***************************************************************************)
RECURSIVE InVocabulary(_)
\* every node of w is a column, a constant or an operation of the vocabulary
InVocabulary(w) ==
    \/ w.op \in {"Column", "Const"}
    \/ /\ w.op \in Vocabulary
       /\ \A i \in DOMAIN w.kids : InVocabulary(w.kids[i])

RECURSIVE BuiltByApi(_)
\* no inequality of w carries another tag than the one operator.ne gives
BuiltByApi(w) ==
    /\ w.op \in {"!=", "<>"} => w.op = neTag
    /\ \A i \in DOMAIN w.kids : BuiltByApi(w.kids[i])

\* C1: for every tree built from the vocabulary, like operands that are empty
\* or hold '%' and empty lists included, parsing the formatted text succeeds
\* and gives back the tree: where(formatWhere(tree)) = tree.
C1_RoundTrip ==
    (pc = "parsed" /\ InVocabulary(tree) /\ BuiltByApi(tree)) =>
        (result.kind = "tree" /\ result.tree = tree)

\* C2: for every tree of the vocabulary, an inequality tagged '<>' included,
\* formatWhere(where(formatWhere(tree))) is defined and equals formatWhere(tree).
C2_FormatIdempotent ==
    /\ (pc = "formatted" /\ InVocabulary(tree)) => text.ok
    /\ (pc = "parsed" /\ InVocabulary(tree)) => result.kind = "tree"
    /\ (pc = "done" /\ InVocabulary(tree)) => (text2.ok /\ text2.s = text.s)

\* C7: the formatter raises an error for every operation whose tag is not in
\* the vocabulary ('=', '!', '= <', ...) and for every unknown leaf: no text
\* is ever produced for them.
C7_ForeignTagRejected ==
    (pc = "formatted" /\ tree \in ForeignNodes) => ~text.ok

RECURSIVE Brackets(_, _)
\* the number of and / or nodes of w that stand as the right operand of an
\* and / or, as the left operand of an and / or of the other operator, or as
\* the operand of a not; b tells whether w itself stands in such a place
Brackets(w, b) ==
    IF w.op \in LOGICAL
    THEN (IF b THEN 1 ELSE 0) + Brackets(left(w), left(w).op # w.op) + Brackets(right(w), TRUE)
    ELSE IF w.op = "not" THEN Brackets(left(w), TRUE)
    ELSE 0

IsPrefix(p, s) == StartsAt(s, 0, p)

IsSuffix(p, s) == Len(p) <= Len(s) /\ StartsAt(s, Len(s) - Len(p), p)

A1 == AtomSeq[1]

A2 == AtomSeq[2]

\* C8: in the text of an and / or node the left operand stands without brackets
\* when it is not an and / or of the other operator, and in brackets when it is;
\* a right operand that is an and / or always stands in brackets.  So
\* and(and(a, b), c) has no brackets and a line break, and and(a, and(b, c))
\* has 'b AND c' in brackets.
C8_Bracketing ==
    (pc = "formatted" /\ InVocabulary(tree) /\ tree.op \in LOGICAL) =>
        /\ text.ok
        /\ Count(text.s, "(") = Brackets(tree, FALSE)
        /\ Count(text.s, ")") = Brackets(tree, FALSE)
        /\ (left(tree).op \in LOGICAL /\ left(tree).op # tree.op) =>
               IsPrefix(Bracketed(formatWhere(left(tree)).s), text.s)
        /\ left(tree).op = tree.op =>
               IsPrefix(_format(left(tree), FALSE, TRUE).s \o <<" ">>, text.s)
        /\ left(tree).op \notin LOGICAL =>
               IsPrefix(formatWhere(left(tree)).s \o <<" ">>, text.s)
        /\ right(tree).op \in LOGICAL =>
               IsSuffix(Bracketed(formatWhere(right(tree)).s), text.s)
        /\ right(tree).op \notin LOGICAL =>
               IsSuffix(formatWhere(right(tree)).s, text.s)

\* and(and(a, b), a) formatted without brackets, and(a, and(a, b)) with them
C8_Witness ==
    /\ pc = "formatted"
    /\ \/ /\ tree = Composite("and", Composite("and", A1, A2), A1)
          /\ Count(text.s, "(") = 0
          /\ Count(text.s, "\n") = 2
       \/ /\ tree = Composite("and", A1, Composite("and", A1, A2))
          /\ text.s = formatWhere(A1).s \o <<" ", "A", "N", "D", " ", "(", "\n">> \o indent
                          \o formatWhere(A1).s \o <<" ", "A", "N", "D", " ">> \o formatWhere(A2).s
                          \o <<"\n", ")">>

\* the rendering of an and / or over two operand texts with a break
BreakAfter(l, o, r) == l \o <<" ">> \o UpperStr(OpText[o]) \o <<"\n">> \o r

BreakBefore(l, o, r) == l \o <<"\n">> \o UpperStr(OpText[o]) \o <<" ">> \o r

IsTest(w) == w.op \notin LOGICAL \cup {"not", "Column", "Const", ""}

\* the text of a broken and / or: a chain o(o(a, b), c) of three tests, or the
\* operand of a not, o(a, b), under the join J
Layout(J(_, _, _)) ==
    (pc = "formatted" /\ InVocabulary(tree)) =>
        /\ (/\ tree.op \in LOGICAL
            /\ left(tree).op = tree.op
            /\ IsTest(left(left(tree))) /\ IsTest(right(left(tree))) /\ IsTest(right(tree))) =>
               text.s = J(J(formatWhere(left(left(tree))).s, tree.op,
                            formatWhere(right(left(tree))).s),
                          tree.op, formatWhere(right(tree)).s)
        /\ (/\ tree.op = "not"
            /\ left(tree).op \in LOGICAL
            /\ IsTest(left(left(tree))) /\ IsTest(right(left(tree)))) =>
               text.s = <<"N", "O", "T", " ">>
                           \o Bracketed(J(formatWhere(left(left(tree))).s, left(tree).op,
                                          formatWhere(right(left(tree))).s))

\* C9 (as the code has it): where a break is asked for by the caller or forced
\* by a left operand of the same operator, the text is the left operand, a
\* space, the operator keyword, a line break, then the right operand: the
\* break comes after the operator and the operator ends its line.
C9_BreakAfterOperator == Layout(BreakAfter)

\* C9 (as stated): the break comes before the operator: the left operand, a
\* line break, the operator keyword, a space, then the right operand.
C9_BreakBeforeOperator == Layout(BreakBefore)

\* a chain of three tests and a negated and / or have been formatted
C9_Witness ==
    /\ pc = "formatted"
    /\ \/ tree = Composite("or", Composite("or", A1, A2), A1)
          /\ text.s = formatWhere(A1).s \o <<" ", "O", "R", "\n">> \o formatWhere(A2).s
                          \o <<" ", "O", "R", "\n">> \o formatWhere(A1).s
       \/ tree = Invert(Composite("and", A1, A2))
          /\ text.s = <<"N", "O", "T", " ", "(", "\n">> \o indent \o formatWhere(A1).s
                          \o <<" ", "A", "N", "D", "\n">> \o indent \o formatWhere(A2).s
                          \o <<"\n", ")">>

(***************************************************************************)
(* Properties of parsing: where(text) for the texts of Inputs              *)
(***************************************************************************)
IsLikeInput == Len(input) = 3 /\ input[2] \in {wLike, wLIKE}

\* the column named a, the operation o and the string p
LikeNode(o, p) == Composite(o, Col1("a"), Const(PyStr(p)))

\* the outcome of a like <repr of p>, with startsWith when StartsWith(p)
LikeCases(p, StartsWith(_)) ==
    LET n == Len(p)
        ps == Count(p, "%")
    IN  IF ps = 0 THEN result.kind = "tree" /\ result.tree = LikeNode("==", p)
        ELSE IF ps = 1 /\ p[1] = "%" /\ ~StartsWith(p)
            THEN result.kind = "tree" /\ result.tree = LikeNode("endsWith", Tail(p))
        ELSE IF StartsWith(p)
            THEN result.kind = "tree" /\ result.tree = LikeNode("startsWith", SubSeq(p, 1, n - 1))
        ELSE IF ps = 2 /\ p[1] = "%" /\ p[n] = "%"
            THEN result.kind = "tree" /\ result.tree = LikeNode("like", SubSeq(p, 2, n - 1))
        ELSE result.kind = "ValueError"

RECURSIVE NoPercent(_)
\* no like / startsWith / endsWith node of w has a '%' in its operand
NoPercent(w) ==
    /\ w.op \in {"like", "startsWith", "endsWith"} =>
           (IsStr(right(w)) /\ ~("%" \in Range(right(w).val.s)))
    /\ \A i \in DOMAIN w.kids : NoPercent(w.kids[i])

LikeCompilation(StartsWith(_)) ==
    pc = "parsed" =>
        /\ IsLikeInput =>
              /\ \A p \in Patterns : input[3] = reprStr(p) => LikeCases(p, StartsWith)
              /\ input[3] \in NonStrings => result.kind = "ValueError"
        /\ result.kind = "tree" => NoPercent(result.tree)

\* C3 (as the code has it): the operand of a like test is compiled by a total
\* case split: no '%' gives an equality; exactly one '%', at the start, gives
\* endsWith without it (so the pattern '%' gives endsWith of the empty string);
\* exactly one '%', at the end and not at the start, gives startsWith without
\* it; exactly two '%', one at each end, gives like without them; every other
\* string and every operand that is not a string ends the parse with a
\* ValueError and no node.  No parsed like / startsWith / endsWith node has a
\* '%' in its operand.
C3_LikeCompilation ==
    LikeCompilation(LAMBDA p : Count(p, "%") = 1 /\ p[Len(p)] = "%" /\ p[1] # "%")

\* C3 (as stated): ... exactly one '%' at the end gives startsWith with the
\* '%' removed, the pattern '%' included ...
C3_LikeCaseSplit ==
    LikeCompilation(LAMBDA p : Count(p, "%") = 1 /\ p[Len(p)] = "%")

\* a like 'x%' has been parsed to startsWith(a, 'x'), a like '%' to endsWith(a, '')
C3_Witness ==
    /\ pc = "parsed"
    /\ IsLikeInput
    /\ \/ input[3] = <<"'", "x", "%", "'">> /\ result.tree = LikeNode("startsWith", <<"x">>)
       \/ input[3] = <<"'", "%", "'">> /\ result.tree = LikeNode("endsWith", <<>>)

OpWords == {wAnd, wOr}

OperandWords == {OperandText[i][k] : i \in DOMAIN OperandText, k \in 1..2}

\* NOT* operand (op NOT* operand)*
IsChainInput ==
    /\ input # <<>>
    /\ input[Len(input)] \in OperandWords
    /\ \A i \in DOMAIN input :
           \/ input[i] \in OperandWords /\ (i = 1 \/ input[i - 1] \in OpWords \cup {wNot})
           \/ input[i] = wNot /\ (i = 1 \/ input[i - 1] \in OpWords \cup {wNot})
           \/ input[i] \in OpWords /\ i > 1 /\ input[i - 1] \in OperandWords

\* the tree the operand word stands for
TreeOf(word) ==
    LET ik == CHOOSE ik \in (DOMAIN OperandText) \X (1..2) : OperandText[ik[1]][ik[2]] = word
    IN  OperandTree[ik[1]][ik[2]]

RECURSIVE Negated(_, _)
Negated(w, k) == IF k = 0 THEN w ELSE Invert(Negated(w, k - 1))

RECURSIVE LeftFold(_, _, _, _, _)
\* the words from i on folded into acc: each NOT negates the operand after it,
\* each operator joins all that precedes it to the operand after it
LeftFold(ws, i, acc, op, nots) ==
    IF i > Len(ws) THEN acc
    ELSE IF ws[i] = wNot THEN LeftFold(ws, i + 1, acc, op, nots + 1)
    ELSE IF ws[i] \in OpWords THEN LeftFold(ws, i + 1, acc, IF ws[i] = wOr THEN "or" ELSE "and", 0)
    ELSE LeftFold(ws, i + 1,
                  IF op = "" THEN Negated(TreeOf(ws[i]), nots)
                  ELSE Composite(op, acc, Negated(TreeOf(ws[i]), nots)),
                  "", 0)

Folded == result.kind = "tree" /\ result.tree = LeftFold(input, 1, Opaque, "", 0)

\* C4: and / or have one precedence and fold from the left: operands t1 .. tn
\* joined by and / or, none negated, parse to (..((t1 op1 t2) op2 t3).. tn).
C4_LeftFold ==
    (pc = "parsed" /\ IsChainInput /\ ~(\E i \in DOMAIN input : input[i] = wNot)) => Folded

\* t1 or t2 and t3 has been parsed to and(or(t1, t2), t3)
C4_Witness ==
    /\ pc = "parsed"
    /\ input = <<OperandText[1][1], wOr, OperandText[2][1], wAnd, OperandText[3][1]>>
    /\ result.tree = Composite("and", Composite("or", OperandTree[1][1], OperandTree[2][1]),
                               OperandTree[3][1])

\* C5: NOT binds tighter than and / or: each NOT of an unbracketed chain
\* negates the one test, bracketed expression or further NOT after it, and the
\* negated operands are then folded by and / or.
C5_NotBindsTighter ==
    (pc = "parsed" /\ IsChainInput /\ (\E i \in DOMAIN input : input[i] = wNot)) => Folded

\* not t1 and t2 has been parsed to and(not(t1), t2)
C5_Witness ==
    /\ pc = "parsed"
    /\ input = <<wNot, OperandText[1][1], wAnd, OperandText[2][1]>>
    /\ result.tree = Composite("and", Invert(OperandTree[1][1]), OperandTree[2][1])

(***************************************************************************)
(* The expressions over Words, told by the grammar alone: every way of     *)
(* reading the words is followed, and nothing is committed to              *)
(***************************************************************************)
IsWordInput == \A i \in DOMAIN input : input[i] \in Words

RECURSIVE TermEnds(_, _), ExprEnds(_, _), MoreEnds(_, _)
\* the j for which words i+1 .. j of ws are a test or a bracketed expression
TermEnds(ws, i) ==
    IF i >= Len(ws) THEN {}
    ELSE IF ws[i + 1] = wTest THEN {i + 1}
    ELSE IF ws[i + 1] = wInList
        THEN IF i + 3 <= Len(ws) /\ ws[i + 2] = wOne /\ ws[i + 3] = wClose THEN {i + 3} ELSE {}
    ELSE IF ws[i + 1] = wLeft
        THEN {j + 1 : j \in {k \in ExprEnds(ws, i + 1) : k < Len(ws) /\ ws[k + 1] = wRight}}
    ELSE {}

\* the k for which words j+1 .. k of ws are (and term)*
MoreEnds(ws, j) ==
    {j} \cup (IF j < Len(ws) /\ ws[j + 1] = wAnd
              THEN UNION {MoreEnds(ws, k) : k \in TermEnds(ws, j + 1)}
              ELSE {})

\* the k for which words i+1 .. k of ws are an expression
ExprEnds(ws, i) == UNION {MoreEnds(ws, j) : j \in TermEnds(ws, i)}

Valid(ws) == Len(ws) \in ExprEnds(ws, 0)

\* ws can be continued to an expression by a test and closing brackets
Viable(ws) == \E m \in 0..Len(ws) : Valid(ws \o <<wTest>> \o Repeat(wRight, m))

Max(S) == CHOOSE x \in S : \A y \in S : y <= x

\* the offset in the text at which word k starts; the end of the text for a
\* word after the last
WordStart(ws, k) ==
    IF k > Len(ws) THEN Len(TextOf(ws))
    ELSE IF k = 1 THEN 0
    ELSE Len(TextOf(SubSeq(ws, 1, k - 1))) + 1

TrailingInput(loc) ==
    /\ result.kind = "ParseException"
    /\ result.msg = "Expected end of text"
    /\ result.loc = loc

\* the words after the longest expression at the start of ws do not go on
\* with 'and' and the start of a bracket or of a list
Uncommitted(ws, k) ==
    ~(k + 2 <= Len(ws) /\ ws[k + 1] = wAnd /\ ws[k + 2] \in {wLeft, wInList})

FatalError(msg, loc) ==
    /\ result.kind = "ParseFatalException"
    /\ result.msg = msg
    /\ result.loc = loc

\* word k starts a list where a test may start, and the list is not finished
OpenList(ws, k) ==
    /\ ws[k] = wInList
    /\ Viable(SubSeq(ws, 1, k - 1))
    /\ ~(k + 2 <= Len(ws) /\ ws[k + 1] = wOne /\ ws[k + 2] = wClose)

\* after word k (a bracket, or the start of the text for k = 0) an expression
\* is due, and what follows starts none
OpenExpression(ws, k) ==
    /\ k = 0 \/ ws[k] = wLeft
    /\ Viable(SubSeq(ws, 1, k))
    /\ k = Len(ws) \/ ws[k + 1] \in {wRight, wAnd, wOne, wClose}

====
